---- MODULE Spec2Model ----
(***************************************************************************)
(* Model of the m3u8 downloader: M3u8Downloader::download and the helpers  *)
(* it calls (src/src/utils/download_segment.rs, src/src/utils/file.rs).    *)
(* One behaviour is one run of download(): the manifest is retrieved, the  *)
(* key is extracted, one task per segment is spawned behind a semaphore,   *)
(* every task runs the retry loop of download_segment around               *)
(* try_download_segment, the run joins all tasks, and merge_segments       *)
(* concatenates the segment files and calls the transcoder.                *)
(*                                                                         *)
(* Segment indices are 0-based as in the code; TLA+ sequences are 1-based, *)
(* so entry i of the manifest is manifest[i + 1].                          *)
(***************************************************************************)
EXTENDS Integers, Sequences, FiniteSets, TLC

(* ------------------------------ bounds --------------------------------- *)
\* largest number of segments of a manifest
MaxSegs == 2
\* largest value of Args.concurrent (the semaphore's size)
MaxConcurrent == 2
\* Args.retry, the retry limit of download_segment
MaxRetry == 1
\* largest number of tasks of a batch
MaxTasks == 2
\* segments of a playlist queried by time offset
MaxPlaylist == 3

(* ------------------------- bytes and payloads -------------------------- *)
\* the MPEG-TS sync byte tested by is_valid_ts_file
SyncByte == 71
\* number of header bytes is_valid_ts_file reads with read_exact
HeaderLen == 4
\* key.len() required by decrypt_segment
KeyLen == 16
\* byte arithmetic is modulo 2^8
ByteMod == 256
\* the length of a transport stream packet
PacketLen == 188

\* a file that does not exist (no byte has this value)
NoFile == << -1 >>

Prefix(s, k) == SubSeq(s, 1, k)

\* Option<T> is a sequence of length 0 (None) or 1 (Some)
None == << >>
Some(x) == << x >>
IsSome(o) == Len(o) = 1
Unwrap(o) == o[1]

(* ------------------------------ URIs ----------------------------------- *)
\* A segment URI is the sequence of its path components.  Two of the URIs
\* share their last component; one ends in "..", for which
\* Path::file_name() is None.
UriA == << "a", "seg.ts" >>
UriB == << "b", "seg.ts" >>
UriC == << "c", ".." >>
Uris == << UriA, UriB, UriC >>

UriTag(u) == CHOOSE k \in 1..Len(Uris) : Uris[k] = u

\* Path::new(uri).file_name(): the last component, None for "" and ".."
FileName(u) ==
    IF Len(u) = 0 \/ u[Len(u)] = ".." \/ u[Len(u)] = ""
    THEN None
    ELSE Some(u[Len(u)])

\* format!("segment_{:06}.ts", index)
ZeroPad6(index) ==
    IF index < 10 THEN "00000" \o ToString(index)
    ELSE IF index < 100 THEN "0000" \o ToString(index)
    ELSE ToString(index)

FallbackName(index) == "segment_" \o ZeroPad6(index) \o ".ts"

\* the file name try_download_segment derives (and get_segment_filename)
SegmentFilename(u, index) ==
    IF IsSome(FileName(u)) THEN Unwrap(FileName(u)) ELSE FallbackName(index)

\* a merge that names every file after the entry's position
MergeFilenameByIndex(u, index) == FallbackName(index)

\* the file name merge_segments derives
MergeFilename(u, index) ==
    IF IsSome(FileName(u)) THEN Unwrap(FileName(u)) ELSE FallbackName(index)

(* ------------------------------ cipher --------------------------------- *)
\* The block cipher is scaled down to a block of one byte: the key is still
\* KeyLen bytes, the IV is still the segment index in big-endian (its low
\* byte), the chaining is CBC and the padding is PKCS#7 (for a one-byte
\* block the pad is the single byte 1).
BlockLen == 1

Key16 == [j \in 1..KeyLen |-> j]
ShortKey == [j \in 1..(KeyLen - 1) |-> j]
LongKey == [j \in 1..(KeyLen + 1) |-> j]

RECURSIVE SumBytes(_)
SumBytes(s) == IF Len(s) = 0 THEN 0 ELSE (s[1] + SumBytes(Tail(s))) % ByteMod

\* (segment_index as u128).to_be_bytes(), as far as a one-byte block sees it
IvOf(index) == index % ByteMod

\* the block of ciphertext chained into block j
Chain(data, index, j) == IF j = 1 THEN IvOf(index) ELSE data[j - 1]

\* CBC decryption of every block, before unpadding
CbcDecrypt(data, key, index) ==
    LET k == SumBytes(key) IN
    [j \in 1..Len(data) |->
        (data[j] - k - Chain(data, index, j) + 2 * ByteMod) % ByteMod]

\* PKCS#7: the last byte p is the pad length, 1 <= p <= BlockLen, and the
\* last p bytes all equal p
PadOk(plain) ==
    /\ Len(plain) > 0
    /\ Len(plain) % BlockLen = 0
    /\ plain[Len(plain)] \in 1..BlockLen
    /\ \A j \in (Len(plain) - plain[Len(plain)] + 1)..Len(plain) :
          plain[j] = plain[Len(plain)]

\* a decrypt_segment that hands a key of any length to the cipher
DecryptSegmentAnyKey(data, key, index) ==
    LET plain == CbcDecrypt(data, key, index) IN
    IF PadOk(plain)
    THEN [ok |-> TRUE, err |-> "none",
          data |-> Prefix(plain, Len(plain) - plain[Len(plain)])]
    ELSE [ok |-> FALSE, err |-> "padding", data |-> << >>]

\* decrypt_segment: Err for a key of the wrong length and for bad padding
DecryptSegment(data, key, index) ==
    IF Len(key) # KeyLen
    THEN [ok |-> FALSE, err |-> "keylen", data |-> << >>]
    ELSE LET plain == CbcDecrypt(data, key, index) IN
         IF PadOk(plain)
         THEN [ok |-> TRUE, err |-> "none",
               data |-> Prefix(plain, Len(plain) - plain[Len(plain)])]
         ELSE [ok |-> FALSE, err |-> "padding", data |-> << >>]

\* what the origin server did to a segment: pad, then CBC-encrypt
RECURSIVE CbcEncrypt(_, _, _)
CbcEncrypt(plain, k, prev) ==
    IF Len(plain) = 0 THEN << >>
    ELSE LET c == (plain[1] + k + prev) % ByteMod
         IN << c >> \o CbcEncrypt(Tail(plain), k, c)

EncryptSegment(plain, key, index) ==
    CbcEncrypt(plain \o << BlockLen >>, SumBytes(key), IvOf(index))

\* the media bytes of the segment at a URI: one sync byte and a body that
\* tells the segments apart
PlainOf(u) == << SyncByte, UriTag(u), UriTag(u), UriTag(u), UriTag(u) >>

(* ------------------------------ validator ------------------------------ *)
\* is_valid_ts_file of utils/file.rs (the one utils/mod.rs re-exports):
\* the file opens, read_exact fills HeaderLen bytes, and buffer[0] is 0x47
IsValidTsFile(content) ==
    /\ content # NoFile
    /\ Len(content) >= HeaderLen
    /\ content[1] = SyncByte

(* ------------------------------- state --------------------------------- *)
VARIABLES
    manifest,      \* playlist.segments: the URIs, in manifest order
    playlist_key,  \* the bytes behind the #EXT-X-KEY URI, None without the tag
    concurrent,    \* Args.concurrent
    disk,          \* download_dir: file name -> content, NoFile when absent
    output_file,   \* output_dir/{output_name}.mp4, NoFile when absent
    stats,         \* DownloadStats behind the tokio Mutex
    key_data,      \* the Option<Vec<u8>> download() hands to every task
    permits,       \* free permits of the semaphore
    pc,            \* where each spawned task stands
    retry_count,   \* download_segment's retry_count, per task
    cause,         \* the error a task returned, "none" until then
    via,           \* how a task's attempt succeeded: "skip", "fetch", or
                   \* "overwrite" for a fetch written over a file still there
    attempts,      \* calls of try_download_segment, per task
    retries,       \* retry events logged by download_segment, per task
    first_done,    \* the task that completed first, -1 while none has
    main_pc,       \* where download() stands
    merge_idx,     \* merge_segments' loop index
    result,        \* what download() returned
    ffmpeg_status, \* how the transcoder ended: "none" until it was run
    dir_removed,   \* remove_dir_all succeeded (the info! line was logged)
    tasks,         \* process_download_tasks: the batch, in list order
    variant,       \* which process_download_tasks runs the batch
    batch_pc,      \* where process_download_tasks stands
    task_idx,      \* the loop index of process_download_tasks
    successful_tasks, \* names pushed on success
    failed_tasks,     \* (name, error) pushed on failure
    skipped_tasks,    \* names pushed on a skip
    batch_result,  \* what process_download_tasks returned
    progress_bar,  \* what the indicatif bar shows: its position, and the
                   \* byte count behind the speed of its message
    env_removed,   \* something outside the program removed a segment file
    call,          \* a function called on its own: its name and arguments
    ret            \* what that call returned, NoRet until it has

vars == << manifest, playlist_key, concurrent, disk, output_file, stats,
           key_data, permits, pc, retry_count, cause, via, attempts, retries,
           first_done, main_pc, merge_idx, result, ffmpeg_status, dir_removed,
           tasks, variant, batch_pc, task_idx, successful_tasks, failed_tasks,
           skipped_tasks, batch_result, progress_bar, env_removed, call, ret >>

\* a function called on its own, outside any download or batch
pureVars == << call, ret >>

inputs == << manifest, playlist_key, concurrent >>
\* what merge_segments' last steps leave behind
mergeLog == << ffmpeg_status, dir_removed >>
\* the state of process_download_tasks
batchVars == << tasks, variant, batch_pc, task_idx, successful_tasks, failed_tasks,
               skipped_tasks, batch_result >>
\* what only the spawned tasks change
taskVars == << permits, pc, retry_count, cause, via, attempts, retries, first_done >>
\* the per-task bookkeeping of download_segment's loop
loopVars == << retry_count, cause, via, retries, first_done, permits >>

NumSegs == Len(manifest)
Segs == 0..(NumSegs - 1)

\* Args.retry
Retry == MaxRetry

\* download_dir/{output_name}_temp.ts
TempName == "out_temp.ts"

NameOf(i) == SegmentFilename(manifest[i + 1], i)
\* the name under which merge_segments looks for entry i's file
MergeNameOf(i) == MergeFilename(manifest[i + 1], i)

\* every file name the model's download directory can hold
DirNames ==
    { SegmentFilename(Uris[k], i) : k \in 1..Len(Uris), i \in 0..(MaxSegs - 1) }
        \cup { TempName }

\* the response body of the segment's URL
ServerBody(i) ==
    IF IsSome(playlist_key)
    THEN EncryptSegment(PlainOf(manifest[i + 1]), Key16, i)
    ELSE PlainOf(manifest[i + 1])

\* a decryption with the position of the next entry as the IV
DataOfNextPosition(i) ==
    IF IsSome(key_data)
    THEN DecryptSegment(ServerBody(i), Unwrap(key_data), i + 1)
    ELSE [ok |-> TRUE, err |-> "none", data |-> ServerBody(i)]

\* `data` of try_download_segment once the response is in and decrypted
DataOf(i) ==
    IF IsSome(key_data)
    THEN DecryptSegment(ServerBody(i), Unwrap(key_data), i)
    ELSE [ok |-> TRUE, err |-> "none", data |-> ServerBody(i)]

\* manifests: the empty one, and up to MaxSegs consecutive URIs of the list
Window(start, n) == [j \in 1..n |-> Uris[start + j - 1]]

Manifests ==
    { Window(w[1], w[2]) :
        w \in { v \in (1..Len(Uris)) \X (1..MaxSegs) : v[1] + v[2] - 1 <= Len(Uris) } }
        \cup { << >> }

\* what an earlier run can have left under a name: nothing, or under a
\* segment's name the segment or a file that is not a transport stream
LeftOver(m, f) ==
    IF \A j \in 1..Len(m) : SegmentFilename(m[j], j - 1) # f THEN { NoFile }
    ELSE { NoFile, << 0 >> } \cup
         { PlainOf(m[j]) : j \in { j \in 1..Len(m) : SegmentFilename(m[j], j - 1) = f } }

EmptyDisk == [f \in DirNames |-> NoFile]

\* the download directory before the run: empty, or one file left over
InitDisks(m) ==
    UNION { { [EmptyDisk EXCEPT ![f] = c] : c \in LeftOver(m, f) } : f \in DirNames }

Running == [ok |-> FALSE, kind |-> "running", pos |-> -1, cause |-> "none"]
Failure(kind, pos, why) == [ok |-> FALSE, kind |-> kind, pos |-> pos, cause |-> why]
Success == [ok |-> TRUE, kind |-> "ok", pos |-> -1, cause |-> "none"]

\* no function is called on its own
NoRet == << >>
NoCall ==
    /\ call = [fn |-> "none"]
    /\ ret = NoRet

\* ProgressBar::new: position 0, no message yet
NewBar == [position |-> 0, shown_bytes |-> 0]

\* a bar that is left alone until the run ends
ShowProgressNothing(st) == NewBar

\* set_position and set_message in download_segment's Ok arm: the bar shows
\* the completed count (the percentage is that count over the total) and a
\* speed computed from the bytes downloaded so far
ShowProgress(st) ==
    [position |-> st.completed_segments, shown_bytes |-> st.downloaded_bytes]

\* one download on its own: no batch is running
NoBatch ==
    /\ tasks = << >>
    /\ variant = "none"
    /\ batch_pc = "idle"
    /\ task_idx = 0
    /\ successful_tasks = << >>
    /\ failed_tasks = << >>
    /\ skipped_tasks = << >>
    /\ batch_result = "none"

Init ==
    /\ manifest \in Manifests
    /\ playlist_key \in { None, Some(Key16), Some(ShortKey) }
    /\ concurrent \in 1..MaxConcurrent
    /\ disk \in InitDisks(manifest)
    /\ IsSome(playlist_key) => disk = EmptyDisk
    /\ output_file = NoFile
    /\ stats = [total_segments |-> 0, completed_segments |-> 0, downloaded_bytes |-> 0]
    /\ key_data = None
    /\ permits = 0
    /\ pc = [i \in Segs |-> "unspawned"]
    /\ retry_count = [i \in Segs |-> 0]
    /\ cause = [i \in Segs |-> "none"]
    /\ via = [i \in Segs |-> "none"]
    /\ attempts = [i \in Segs |-> 0]
    /\ retries = [i \in Segs |-> 0]
    /\ first_done = -1
    /\ main_pc = "fetch_manifest"
    /\ merge_idx = 0
    /\ result = Running
    /\ ffmpeg_status = "none"
    /\ dir_removed = FALSE
    /\ progress_bar = NewBar
    /\ env_removed = FALSE
    /\ NoBatch
    /\ NoCall

(* --------------------- download(): up to the spawn --------------------- *)
Return(r) ==
    /\ main_pc' = "returned"
    /\ result' = r

\* download_text + parse_m3u8, then stats.total_segments = segments.len()
FetchManifest ==
    /\ main_pc = "fetch_manifest"
    /\ \/ /\ Return(Failure("manifest", -1, "http"))
          /\ UNCHANGED stats
       \/ /\ main_pc' = "extract_key"
          /\ stats' = [stats EXCEPT !.total_segments = NumSegs]
          /\ UNCHANGED result
    /\ UNCHANGED << inputs, pureVars, progress_bar, env_removed, mergeLog, batchVars,
                    disk, output_file, key_data, taskVars, merge_idx >>

\* a download that goes on without a key when the key cannot be retrieved
ExtractKeyIgnoresFailure ==
    /\ main_pc = "extract_key"
    /\ \/ /\ IsSome(playlist_key)
          /\ key_data' = None
       \/ key_data' = playlist_key
    /\ main_pc' = "spawn"
    /\ UNCHANGED << inputs, pureVars, progress_bar, env_removed, mergeLog, batchVars, disk,
                    output_file, stats, taskVars, merge_idx, result >>

\* extract_encryption_key: None without the tag, else download_key
ExtractKey ==
    /\ main_pc = "extract_key"
    /\ \/ /\ IsSome(playlist_key)
          /\ Return(Failure("key", -1, "http"))
          /\ UNCHANGED key_data
       \/ /\ key_data' = playlist_key
          /\ main_pc' = "spawn"
          /\ UNCHANGED result
    /\ UNCHANGED << inputs, pureVars, progress_bar, env_removed, mergeLog, batchVars,
                    disk, output_file, stats, taskVars, merge_idx >>

\* Semaphore::new(self.concurrent) and one tokio::spawn per segment
SpawnTasks ==
    /\ main_pc = "spawn"
    /\ permits' = concurrent
    /\ pc' = [i \in Segs |-> "queued"]
    /\ main_pc' = "join"
    /\ UNCHANGED << inputs, pureVars, progress_bar, env_removed, mergeLog, batchVars,
                    disk, output_file, stats, key_data, retry_count, cause, via,
                    attempts, retries, first_done, merge_idx, result >>

(* ------------------------- one spawned task ---------------------------- *)
Terminal == { "persisted", "failed" }
\* admitted by the gate and not yet Persisted or Failed
Active == { "check", "request", "backoff" }

\* a gate that admits every task at once
CanAcquireUngated == TRUE

\* semaphore.acquire(): a permit is free
CanAcquire == permits > 0

Acquire(i) ==
    /\ pc[i] = "queued"
    /\ CanAcquire
    /\ permits' = permits - 1
    /\ pc' = [pc EXCEPT ![i] = "check"]
    /\ UNCHANGED << inputs, pureVars, progress_bar, env_removed, mergeLog, batchVars,
                    disk, output_file, stats, key_data, retry_count, cause, via,
                    attempts, retries, first_done, main_pc, merge_idx, result >>

\* a task that ends without giving its permit back
FinishKeepsPermit(i) ==
    /\ first_done' = IF first_done = -1 THEN i ELSE first_done
    /\ permits' = permits

\* the task ends: its permit drops, and the join sees its result
Finish(i) ==
    /\ first_done' = IF first_done = -1 THEN i ELSE first_done
    /\ permits' = permits + 1

\* a success that is not counted
CountSegmentNever(st) == st

\* a success that is counted twice
CountSegmentTwice(st) == [st EXCEPT !.completed_segments = @ + 2]

\* a lost update: every task writes back the count it read at the start
CountSegmentStale(st) == [st EXCEPT !.completed_segments = 1]

\* stats.completed_segments += 1, under the lock
CountSegment(st) == [st EXCEPT !.completed_segments = @ + 1]

\* the Ok arm of download_segment's loop: the segment is counted (st is
\* the stats the attempt left) and the task returns Ok
AttemptOk(i, how, st) ==
    /\ stats' = CountSegment(st)
    /\ progress_bar' = ShowProgress(stats')
    /\ pc' = [pc EXCEPT ![i] = "persisted"]
    /\ via' = [via EXCEPT ![i] = how]
    /\ Finish(i)
    /\ UNCHANGED << retry_count, cause, retries >>

\* giving up one failure early
ExhaustedEarly(count) == count >= Retry

\* retry_count > self.retry
Exhausted(count) == count > Retry

\* an Err arm whose final return does not drop the permit
AttemptFailedKeepsPermit(i, why) ==
    /\ retry_count' = [retry_count EXCEPT ![i] = @ + 1]
    /\ IF Exhausted(retry_count[i] + 1)
       THEN /\ pc' = [pc EXCEPT ![i] = "failed"]
            /\ cause' = [cause EXCEPT ![i] = why]
            /\ first_done' = IF first_done = -1 THEN i ELSE first_done
            /\ UNCHANGED << retries, permits >>
       ELSE /\ pc' = [pc EXCEPT ![i] = "backoff"]
            /\ retries' = [retries EXCEPT ![i] = @ + 1]
            /\ UNCHANGED << cause, first_done, permits >>
    /\ UNCHANGED << via, progress_bar >>

\* the Err arm of download_segment's loop: count the failure, give up after
\* Retry retries, else log the retry and back off
AttemptFailed(i, why) ==
    /\ retry_count' = [retry_count EXCEPT ![i] = @ + 1]
    /\ IF Exhausted(retry_count[i] + 1)
       THEN /\ pc' = [pc EXCEPT ![i] = "failed"]
            /\ cause' = [cause EXCEPT ![i] = why]
            /\ Finish(i)
            /\ UNCHANGED retries
       ELSE /\ pc' = [pc EXCEPT ![i] = "backoff"]
            /\ retries' = [retries EXCEPT ![i] = @ + 1]
            /\ UNCHANGED << cause, first_done, permits >>
    /\ UNCHANGED << via, progress_bar >>

\* a loop that goes on after it has reported the final error
BackoffAfterFailure(i) ==
    /\ pc[i] \in { "backoff", "failed" }
    /\ retry_count[i] <= Retry + 1
    /\ pc' = [pc EXCEPT ![i] = "check"]
    /\ UNCHANGED << inputs, pureVars, progress_bar, env_removed, mergeLog, batchVars,
                    disk, output_file, stats, key_data, loopVars, attempts, main_pc,
                    merge_idx, result >>

\* sleep(1000 ms * retry_count) is over: the loop tries again
Backoff(i) ==
    /\ pc[i] = "backoff"
    /\ pc' = [pc EXCEPT ![i] = "check"]
    /\ UNCHANGED << inputs, pureVars, progress_bar, env_removed, mergeLog, batchVars,
                    disk, output_file, stats, key_data, loopVars, attempts, main_pc,
                    merge_idx, result >>

\* no existing file is ever reused
SkipOkNever(content) == FALSE

\* the existing file lets try_download_segment return Ok at once
SkipOk(content) == content # NoFile /\ IsValidTsFile(content)

\* try_download_segment up to the request: a valid existing file ends the
\* attempt with Ok; an invalid one is removed (or the removal fails, which
\* is only logged) and the request is sent
CheckExisting(i) ==
    /\ pc[i] = "check"
    /\ attempts' = [attempts EXCEPT ![i] = @ + 1]
    /\ IF SkipOk(disk[NameOf(i)])
       THEN /\ AttemptOk(i, "skip", stats)
            /\ UNCHANGED disk
       ELSE /\ pc' = [pc EXCEPT ![i] = "request"]
            /\ UNCHANGED << stats, loopVars, progress_bar >>
            /\ IF disk[NameOf(i)] # NoFile
               THEN \/ disk' = [disk EXCEPT ![NameOf(i)] = NoFile]
                    \/ UNCHANGED disk
               ELSE UNCHANGED disk
    /\ UNCHANGED << inputs, pureVars, env_removed, mergeLog, batchVars, output_file,
                    key_data, main_pc, merge_idx, result >>

\* a body that is received and not counted
AddBytesNothing(st, n) == st

\* stats.downloaded_bytes += data.len(), under the lock
AddBytes(st, n) == [st EXCEPT !.downloaded_bytes = @ + n]

\* a file opened for appending instead of being truncated
PersistAppend(d, f, data, k) ==
    [d EXCEPT ![f] = (IF @ = NoFile THEN << >> ELSE @) \o Prefix(data, k)]

\* File::create truncates the file and write_all writes the first k bytes
Persist(d, f, data, k) == [d EXCEPT ![f] = Prefix(data, k)]

\* the lengths a failed write_all is taken to leave behind: nothing, and
\* just the header the validator reads (when data is longer than that)
PartialLens(data) == { k \in { 0, HeaderLen } : k < Len(data) }

\* try_download_segment from the response on.  The request fails (send
\* error, non-success status, body error); or the body arrives and is
\* counted, and then decrypt_segment fails, File::create fails, write_all
\* fails after k bytes, or the whole of data is in the file.  The steps
\* after the response are one step here: file I/O and decryption do not
\* suspend the task, and until the attempt ends no other task of a manifest
\* with distinct file names looks at this file.
Respond(i) ==
    /\ pc[i] = "request"
    /\ LET got == AddBytes(stats, Len(ServerBody(i)))
           dec == DataOf(i)
       IN \/ /\ AttemptFailed(i, "http")
             /\ UNCHANGED << stats, disk >>
          \/ /\ ~dec.ok
             /\ stats' = got
             /\ AttemptFailed(i, dec.err)
             /\ UNCHANGED disk
          \/ /\ dec.ok
             /\ stats' = got
             /\ AttemptFailed(i, "io")
             /\ UNCHANGED disk
          \/ /\ dec.ok
             /\ \E k \in PartialLens(dec.data) :
                   disk' = Persist(disk, NameOf(i), dec.data, k)
             /\ stats' = got
             /\ AttemptFailed(i, "io")
          \/ /\ dec.ok
             /\ disk' = Persist(disk, NameOf(i), dec.data, Len(dec.data))
             /\ AttemptOk(i, IF disk[NameOf(i)] = NoFile THEN "fetch" ELSE "overwrite",
                          got)
    /\ UNCHANGED << inputs, pureVars, env_removed, mergeLog, batchVars, output_file,
                    key_data, attempts, main_pc, merge_idx, result >>

(* ------------------- download(): the join and after -------------------- *)
\* a join that is ready as soon as one task has completed
AllJoinedAny == \E i \in Segs : pc[i] \in Terminal

\* a join that is ready at the first failure (fail-fast)
AllJoinedFailFast ==
    \/ \A i \in Segs : pc[i] \in Terminal
    \/ \E i \in Segs : pc[i] = "failed"

\* join_all(download_tasks).await is ready: every task has completed
AllJoined == \A i \in Segs : pc[i] \in Terminal

\* a result loop that sees no error
FailedNone == { }

\* the results that are Ok(Err(e))
Failed == { i \in Segs : pc[i] = "failed" }

\* a loop that reports the failed task that completed first
FirstFailedByCompletion ==
    IF first_done \in Failed THEN first_done
    ELSE CHOOSE i \in Failed : \A j \in Failed : i <= j

\* the loop over results returns at the first Err, in manifest order
FirstFailed == CHOOSE i \in Failed : \A j \in Failed : i <= j

JoinAll ==
    /\ main_pc = "join"
    /\ AllJoined
    /\ IF Failed # {}
       THEN Return(Failure("segment", FirstFailed, cause[FirstFailed]))
       ELSE /\ main_pc' = "merge_create"
            /\ UNCHANGED result
    /\ UNCHANGED << inputs, pureVars, progress_bar, env_removed, mergeLog, batchVars,
                    disk, output_file, stats, key_data, taskVars, merge_idx >>

(* --------------------------- merge_segments ---------------------------- *)
\* File::create(&temp_ts_path)
MergeCreate ==
    /\ main_pc = "merge_create"
    /\ \/ /\ Return(Failure("merge_io", -1, "io"))
          /\ UNCHANGED << disk, merge_idx >>
       \/ /\ disk' = [disk EXCEPT ![TempName] = << >>]
          /\ merge_idx' = 0
          /\ main_pc' = "merge_loop"
          /\ UNCHANGED result
    /\ UNCHANGED << inputs, pureVars, progress_bar, env_removed, mergeLog, batchVars,
                    output_file, stats, key_data, taskVars >>

\* a loop that handles the entries in completion order: first the task
\* that completed first
MergeEntryByCompletion(k) ==
    IF k = 0 THEN first_done ELSE IF k = first_done THEN 0 ELSE k

\* Between the join and the merge something outside the program removes
\* the file of a segment: the case merge_segments tests for with exists().
SegmentFileLost ==
    /\ main_pc = "merge_create"
    /\ \A i \in Segs : disk[NameOf(i)] # NoFile
    /\ \E i \in Segs : disk' = [disk EXCEPT ![NameOf(i)] = NoFile]
    /\ env_removed' = TRUE
    /\ UNCHANGED << inputs, pureVars, progress_bar, mergeLog, batchVars, output_file,
                    stats, key_data, taskVars, main_pc, merge_idx, result >>

\* the entry the loop handles in its k-th iteration: segments.iter().enumerate()
MergeEntry(k) == k

\* a loop that passes over an entry whose file does not exist
MergeStepSkipsMissing ==
    /\ main_pc = "merge_loop"
    /\ merge_idx < NumSegs
    /\ LET e == MergeEntry(merge_idx) IN
          disk' = [disk EXCEPT ![TempName] =
                      @ \o (IF disk[MergeNameOf(e)] = NoFile THEN << >> ELSE disk[MergeNameOf(e)])]
    /\ merge_idx' = merge_idx + 1
    /\ UNCHANGED << inputs, pureVars, progress_bar, env_removed, mergeLog, batchVars,
                    output_file, stats, key_data, taskVars, main_pc, result >>

\* one iteration: the segment's file must exist, and its bytes are appended
MergeStep ==
    /\ main_pc = "merge_loop"
    /\ merge_idx < NumSegs
    /\ LET e == MergeEntry(merge_idx) IN
       IF disk[MergeNameOf(e)] = NoFile
       THEN /\ Return(Failure("missing", e, "not_found"))
            /\ UNCHANGED << disk, merge_idx >>
       ELSE \/ /\ Return(Failure("merge_io", e, "io"))
               /\ UNCHANGED << disk, merge_idx >>
            \/ /\ disk' = [disk EXCEPT ![TempName] = @ \o disk[MergeNameOf(e)]]
               /\ merge_idx' = merge_idx + 1
               /\ UNCHANGED << main_pc, result >>
    /\ UNCHANGED << inputs, pureVars, progress_bar, env_removed, mergeLog, batchVars,
                    output_file, stats, key_data, taskVars >>

\* temp_file.flush() after the last entry
MergeFlush ==
    /\ main_pc = "merge_loop"
    /\ merge_idx = NumSegs
    /\ \/ Return(Failure("merge_io", -1, "io"))
       \/ /\ main_pc' = "ffmpeg"
          /\ UNCHANGED result
    /\ UNCHANGED << inputs, pureVars, progress_bar, env_removed, mergeLog, batchVars,
                    disk, output_file, stats, key_data, taskVars, merge_idx >>

\* what the transcoder writes for a stream: a container around its bytes
Remux(ts) == << Len(ts) >> \o ts

\* a call of the transcoder that does not look at its exit status
FfmpegIgnoresExit ==
    /\ main_pc = "ffmpeg"
    /\ ffmpeg_status' \in { "nonzero", "zero" }
    /\ output_file' = Remux(disk[TempName])
    /\ main_pc' = "cleanup_temp"
    /\ UNCHANGED << inputs, pureVars, progress_bar, env_removed, dir_removed,
                    batchVars, disk, stats, key_data, taskVars, merge_idx, result >>

\* Command::new("ffmpeg")...output(): it cannot be run, it exits non-zero,
\* or it writes the output file
Ffmpeg ==
    /\ main_pc = "ffmpeg"
    /\ \/ /\ ffmpeg_status' = "spawn_error"
          /\ Return(Failure("ffmpeg_spawn", -1, "io"))
          /\ UNCHANGED output_file
       \/ /\ ffmpeg_status' = "nonzero"
          /\ Return(Failure("ffmpeg", -1, "stderr"))
          /\ UNCHANGED output_file
       \/ /\ ffmpeg_status' = "zero"
          /\ output_file' = Remux(disk[TempName])
          /\ main_pc' = "cleanup_temp"
          /\ UNCHANGED result
    /\ UNCHANGED << inputs, pureVars, progress_bar, env_removed, dir_removed,
                    batchVars, disk, stats, key_data, taskVars, merge_idx >>

\* a cleanup that leaves the intermediate stream to remove_dir_all
CleanupTempSkipped ==
    /\ main_pc = "cleanup_temp"
    /\ main_pc' = "cleanup_dir"
    /\ UNCHANGED << inputs, pureVars, progress_bar, env_removed, mergeLog, batchVars,
                    disk, output_file, stats, key_data, taskVars, merge_idx, result >>

\* fs::remove_file(&temp_ts_path)?
CleanupTemp ==
    /\ main_pc = "cleanup_temp"
    /\ \/ /\ Return(Failure("cleanup", -1, "io"))
          /\ UNCHANGED disk
       \/ /\ disk' = [disk EXCEPT ![TempName] = NoFile]
          /\ main_pc' = "cleanup_dir"
          /\ UNCHANGED result
    /\ UNCHANGED << inputs, pureVars, progress_bar, env_removed, mergeLog, batchVars,
                    output_file, stats, key_data, taskVars, merge_idx >>

\* fs::remove_dir_all(&self.download_dir): everything goes, or it fails
\* having removed some of the files, which is only logged
CleanupDir ==
    /\ main_pc = "cleanup_dir"
    /\ \/ /\ disk' = [f \in DirNames |-> NoFile]
          /\ dir_removed' = TRUE
       \/ \E gone \in SUBSET { f \in DirNames : disk[f] # NoFile } :
             /\ gone # { f \in DirNames : disk[f] # NoFile }
             /\ disk' = [f \in DirNames |-> IF f \in gone THEN NoFile ELSE disk[f]]
             /\ UNCHANGED dir_removed
    /\ Return(Success)
    /\ UNCHANGED << inputs, pureVars, progress_bar, env_removed, ffmpeg_status,
                    batchVars, output_file, stats, key_data, taskVars, merge_idx >>

(* --------------------------- specification ----------------------------- *)
TaskStep(i) ==
    \/ Acquire(i)
    \/ CheckExisting(i)
    \/ Respond(i)
    \/ Backoff(i)

Next ==
    \/ FetchManifest
    \/ ExtractKey
    \/ SpawnTasks
    \/ \E i \in Segs : TaskStep(i)
    \/ JoinAll
    \/ SegmentFileLost
    \/ MergeCreate
    \/ MergeStep
    \/ MergeFlush
    \/ Ffmpeg
    \/ CleanupTemp
    \/ CleanupDir

Spec == Init /\ [][Next]_vars

\* nothing has failed so far: no attempt of a segment, and no step of
\* download() itself
NoFault ==
    /\ \A i \in Segs : retry_count[i] = 0
    /\ result.kind \in { "running", "ok" }
    /\ main_pc = "merge_create" => \A i \in Segs : disk[NameOf(i)] # NoFile

\* a step of the run in which nothing fails
FaultFreeNext == Next /\ NoFault'

\* the runs without a failure.  The runtime keeps running a task that can
\* run, and every step moves the run forward, so weak fairness of the step
\* relation is what the scheduling gives.  (Wherever a step is possible in
\* such a run, a step in which nothing fails is possible too, unless the key
\* has the wrong length.)
FaultFreeSpec == Init /\ [][FaultFreeNext]_vars /\ WF_vars(Next)

(* ======================== process_download_tasks ======================= *)
\* The batch loop, in both versions the repository holds: "utils"
\* (utils/download_segment.rs, the one main.rs calls) and "downloader"
\* (downloader/mod.rs, which first creates ./output and skips a task whose
\* output file is already there).  What process_download_task returns for
\* a task is any of the results one download can end with.

\* the variables of one download, which stand still while a batch is modelled
downloadVars == << manifest, playlist_key, concurrent, disk, output_file, stats,
                  key_data, permits, pc, retry_count, cause, via, attempts, retries,
                  first_done, main_pc, merge_idx, result, ffmpeg_status, dir_removed,
                  progress_bar, env_removed >>

NoDownload ==
    /\ manifest = << >>
    /\ playlist_key = None
    /\ concurrent = 1
    /\ disk = EmptyDisk
    /\ output_file = NoFile
    /\ stats = [total_segments |-> 0, completed_segments |-> 0, downloaded_bytes |-> 0]
    /\ key_data = None
    /\ permits = 0
    /\ pc = << >>
    /\ retry_count = << >>
    /\ cause = << >>
    /\ via = << >>
    /\ attempts = << >>
    /\ retries = << >>
    /\ first_done = -1
    /\ main_pc = "idle"
    /\ merge_idx = 0
    /\ result = Running
    /\ ffmpeg_status = "none"
    /\ dir_removed = FALSE
    /\ progress_bar = NewBar
    /\ env_removed = FALSE

\* metadata().len() of ./output/{name}.mp4: -1 when there is no such file
OutputSizes == { -1, 0, 7 }

\* DownloadTask.output_dir: empty, or a directory of the user's choice
OutputDirs == { "", "videos" }

\* a task and the files earlier runs left for it: `size` is the size of
\* ./output/{name}.mp4 and `custom_size` the size of
\* {output_dir}/{name}/{name}.mp4 (no such path when output_dir is empty)
TaskShapes ==
    { [output_dir |-> "", size |-> s, custom_size |-> -1] : s \in OutputSizes }
        \cup { [output_dir |-> "videos", size |-> s, custom_size |-> c] :
                  s \in { -1, 7 }, c \in OutputSizes }

\* a batch: tasks named by their position
Batches ==
    UNION { [1..n -> TaskShapes] : n \in 0..MaxTasks }

\* the size of the file process_download_task's run writes for the task:
\* {name}.mp4 in ./output when task.output_dir is empty, else in
\* {output_dir}/{name}
ArtifactSize(t) == IF t.output_dir = "" THEN t.size ELSE t.custom_size

\* the errors download() returns, by the step that failed
DownloadErrors ==
    { "manifest", "key", "segment", "merge_io", "missing", "ffmpeg_spawn", "ffmpeg",
      "cleanup" }

\* the Err values of process_download_task: a directory that cannot be
\* created, M3u8Downloader::new failing, or the download failing
TaskErrors == { "mkdir", "new" } \cup DownloadErrors

\* is_already_downloaded: the file exists and is not empty
IsAlreadyDownloaded(size) == size > 0

BatchInit ==
    /\ NoDownload
    /\ NoCall
    /\ \E b \in Batches :
          tasks = [k \in 1..Len(b) |->
                      [name |-> k, output_dir |-> b[k].output_dir, size |-> b[k].size,
                       custom_size |-> b[k].custom_size]]
    /\ variant \in { "utils", "downloader" }
    /\ batch_pc = "start"
    /\ task_idx = 0
    /\ successful_tasks = << >>
    /\ failed_tasks = << >>
    /\ skipped_tasks = << >>
    /\ batch_result = "none"

\* downloader/mod.rs only: create_dir_all("./output")? before the loop
BatchStart ==
    /\ batch_pc = "start"
    /\ \/ /\ variant = "downloader"
          /\ batch_pc' = "done"
          /\ batch_result' = "err_mkdir"
       \/ /\ batch_pc' = "loop"
          /\ UNCHANGED batch_result
    /\ UNCHANGED << downloadVars, pureVars, tasks, variant, task_idx, successful_tasks,
                    failed_tasks, skipped_tasks >>

\* the loop is at a task that is skipped
SkipsTask ==
    /\ variant = "downloader"
    /\ IsAlreadyDownloaded(tasks[task_idx + 1].size)

\* skipped_tasks.push(name); continue
BatchSkip ==
    /\ batch_pc = "loop"
    /\ task_idx < Len(tasks)
    /\ SkipsTask
    /\ skipped_tasks' = Append(skipped_tasks, tasks[task_idx + 1].name)
    /\ task_idx' = task_idx + 1
    /\ UNCHANGED << downloadVars, pureVars, tasks, variant, batch_pc, successful_tasks,
                    failed_tasks, batch_result >>

\* process_download_task(task, ..) is called and awaited
BatchRun ==
    /\ batch_pc = "loop"
    /\ task_idx < Len(tasks)
    /\ ~SkipsTask
    /\ batch_pc' = "running"
    /\ UNCHANGED << downloadVars, pureVars, tasks, variant, task_idx, successful_tasks,
                    failed_tasks, skipped_tasks, batch_result >>

\* a loop that returns at the first task that fails
TaskDoneAborts ==
    /\ batch_pc = "running"
    /\ \/ /\ successful_tasks' = Append(successful_tasks, tasks[task_idx + 1].name)
          /\ batch_pc' = "loop"
          /\ UNCHANGED << failed_tasks, batch_result >>
       \/ \E e \in TaskErrors :
             /\ failed_tasks' = Append(failed_tasks, << tasks[task_idx + 1].name, e >>)
             /\ batch_pc' = "done"
             /\ batch_result' = "err_task"
             /\ UNCHANGED successful_tasks
    /\ task_idx' = task_idx + 1
    /\ UNCHANGED << downloadVars, pureVars, tasks, variant, skipped_tasks >>

\* the match on what process_download_task returned: the name goes to
\* successful_tasks or, with the error, to failed_tasks, and the loop goes on
TaskDone ==
    /\ batch_pc = "running"
    /\ \/ /\ successful_tasks' = Append(successful_tasks, tasks[task_idx + 1].name)
          /\ UNCHANGED failed_tasks
       \/ \E e \in TaskErrors :
             /\ failed_tasks' = Append(failed_tasks, << tasks[task_idx + 1].name, e >>)
             /\ UNCHANGED successful_tasks
    /\ task_idx' = task_idx + 1
    /\ batch_pc' = "loop"
    /\ UNCHANGED << downloadVars, pureVars, tasks, variant, skipped_tasks, batch_result >>

\* failed_tasks.len() == tasks.len()
AllTasksFailed == Len(failed_tasks) = Len(tasks)

\* after the loop: Err when all tasks failed, else Ok
BatchSummary ==
    /\ batch_pc = "loop"
    /\ task_idx = Len(tasks)
    /\ batch_result' = IF AllTasksFailed THEN "err_all_failed" ELSE "ok"
    /\ batch_pc' = "done"
    /\ UNCHANGED << downloadVars, pureVars, tasks, variant, task_idx, successful_tasks,
                    failed_tasks, skipped_tasks >>

BatchNext ==
    \/ BatchStart
    \/ BatchSkip
    \/ BatchRun
    \/ TaskDone
    \/ BatchSummary

BatchSpec == BatchInit /\ [][BatchNext]_vars

(* ====================== functions called on their own ================== *)
\* is_valid_ts_file and decrypt_segment applied once to an argument drawn
\* from a family of files, or of data, keys and positions: `call` is the
\* call and `ret` becomes << its value >>.

\* a file of len bytes, all 0 but for the bytes at offsets 0 and PacketLen
FileOf(len, b0, b188) ==
    [j \in 1..len |-> IF j = 1 THEN b0 ELSE IF j = PacketLen + 1 THEN b188 ELSE 0]

\* file lengths around the header and around one and two packets
FileLens ==
    { 0, 1, HeaderLen - 1, HeaderLen, HeaderLen + 1, PacketLen - 1, PacketLen,
      PacketLen + 1, 2 * PacketLen - 1, 2 * PacketLen, 2 * PacketLen + 1,
      3 * PacketLen }

TsFiles ==
    { FileOf(len, b0, b188) :
        len \in FileLens, b0 \in { SyncByte, 0 }, b188 \in { SyncByte, 0 } }

ValidatorCalls ==
    { [fn |-> "is_valid_ts_file", file |-> f] : f \in TsFiles \cup { NoFile } }

DecryptKeys == { Key16, ShortKey, LongKey, << >> }

\* data handed to decrypt_segment: nothing, a segment as it is, and every
\* segment encrypted under some key for some position
DecryptInputs ==
    { << >>, PlainOf(UriA) } \cup
    { EncryptSegment(PlainOf(Uris[u]), k, n) :
        u \in 1..Len(Uris), k \in DecryptKeys, n \in 0..(MaxSegs - 1) }

DecryptCalls ==
    { [fn |-> "decrypt_segment", data |-> d, key |-> k, index |-> n] :
        d \in DecryptInputs, k \in DecryptKeys, n \in 0..(MaxSegs - 1) }

\* A media playlist is the sequence of its segments' durations, in whole
\* seconds; a segment is named by its index, from 0.
Durations == { 1, 2 }

Playlists == UNION { [1..n -> Durations] : n \in 0..MaxPlaylist }

\* time offsets up to beyond the longest playlist
TimeOffsets == 0..(2 * MaxPlaylist + 1)

BufferSizes == 0..2

\* accumulated_time after the loop has added the segment of index i
RECURSIVE AccumulatedTime(_, _)
AccumulatedTime(d, i) ==
    IF i < 0 THEN 0 ELSE AccumulatedTime(d, i - 1) + d[i + 1]

\* the indices at which the loops' test accumulated_time >= time_offset holds
Reaching(d, t) == { i \in 0..(Len(d) - 1) : AccumulatedTime(d, i) >= t }

\* the index at which the loops stop
FirstReaching(d, t) == CHOOSE i \in Reaching(d, t) : \A j \in Reaching(d, t) : i <= j

\* get_segment_by_time_offset: the first segment at which the accumulated
\* time reaches the offset, None when none does
GetSegmentByTimeOffset(d, t) ==
    IF Reaching(d, t) = {} THEN None ELSE Some(FirstReaching(d, t))

\* segments[start..end]
Slice(start, end) == [k \in 1..(end - start) |-> start + k - 1]

\* get_segments_around_time: segment_index starts at 0 and is set where the
\* loop breaks; the slice from segment_index - buffer_size to
\* segment_index + buffer_size + 1, clipped to the playlist
GetSegmentsAroundTime(d, t, b) ==
    LET segment_index == IF Reaching(d, t) = {} THEN 0 ELSE FirstReaching(d, t)
        start == IF segment_index >= b THEN segment_index - b ELSE 0
        end == IF segment_index + b + 1 <= Len(d) THEN segment_index + b + 1 ELSE Len(d)
    IN Some(Slice(start, end))

TimeCalls ==
    { [fn |-> "get_segment_by_time_offset", playlist |-> d, time_offset |-> t] :
        d \in Playlists, t \in TimeOffsets }
        \cup
    { [fn |-> "get_segments_around_time", playlist |-> d, time_offset |-> t,
       buffer_size |-> b] :
        d \in Playlists, t \in TimeOffsets, b \in BufferSizes }

PureInit ==
    /\ NoDownload
    /\ NoBatch
    /\ call \in ValidatorCalls \cup DecryptCalls \cup TimeCalls
    /\ ret = NoRet

CallIsValidTsFile ==
    /\ call.fn = "is_valid_ts_file"
    /\ ret = NoRet
    /\ ret' = << IsValidTsFile(call.file) >>
    /\ UNCHANGED << downloadVars, batchVars, call >>

CallDecryptSegment ==
    /\ call.fn = "decrypt_segment"
    /\ ret = NoRet
    /\ ret' = << DecryptSegment(call.data, call.key, call.index) >>
    /\ UNCHANGED << downloadVars, batchVars, call >>

CallGetSegmentByTimeOffset ==
    /\ call.fn = "get_segment_by_time_offset"
    /\ ret = NoRet
    /\ ret' = << GetSegmentByTimeOffset(call.playlist, call.time_offset) >>
    /\ UNCHANGED << downloadVars, batchVars, call >>

CallGetSegmentsAroundTime ==
    /\ call.fn = "get_segments_around_time"
    /\ ret = NoRet
    /\ ret' = << GetSegmentsAroundTime(call.playlist, call.time_offset,
                                       call.buffer_size) >>
    /\ UNCHANGED << downloadVars, batchVars, call >>

PureNext ==
    \/ CallIsValidTsFile
    \/ CallDecryptSegment
    \/ CallGetSegmentByTimeOffset
    \/ CallGetSegmentsAroundTime

PureSpec == PureInit /\ [][PureNext]_vars

(* ============================== properties ============================= *)
\* tasks the gate has admitted and that are not yet Persisted or Failed
Admitted == { i \in Segs : pc[i] \in Active }

\* merge_segments has been entered (and download() may have returned from it)
Assembling ==
    \/ main_pc \in { "merge_create", "merge_loop", "ffmpeg", "cleanup_temp",
                     "cleanup_dir" }
    \/ /\ main_pc = "returned"
       /\ result.kind \in { "merge_io", "missing", "ffmpeg_spawn", "ffmpeg",
                            "cleanup", "ok" }

\* the files of the first k entries, one after the other in manifest order
RECURSIVE ConcatFirst(_)
ConcatFirst(k) ==
    IF k = 0 THEN << >> ELSE ConcatFirst(k - 1) \o disk[NameOf(k - 1)]

\* task i takes the step that ends an attempt on a valid existing file
SkipStep(i) ==
    /\ pc[i] = "check"
    /\ IsValidTsFile(disk[NameOf(i)])
    /\ pc'[i] # pc[i]

(* ---------------------------------- C1 --------------------------------- *)
\* C1: in every reachable state the number of tasks that the gate has
\* admitted and that are not yet Persisted or Failed is at most the
\* concurrency limit, whatever the number of entries.
AdmittedWithinLimit == Cardinality(Admitted) <= concurrent

\* the gate is full and holds a task back
GateHoldsTaskBack ==
    /\ NumSegs > concurrent
    /\ Cardinality(Admitted) = concurrent
    /\ \E i \in Segs : pc[i] = "queued"

(* ---------------------------------- C2 --------------------------------- *)
\* C2: whenever merge_segments has been entered, every spawned task is
\* Persisted or Failed: no entry is still waiting or downloading.
AssemblyAfterAllTerminal == Assembling => \A i \in Segs : pc[i] \in Terminal

\* the merge loop of a manifest of several entries is about to start
AssemblyBegins ==
    /\ main_pc = "merge_loop"
    /\ merge_idx = 0
    /\ NumSegs >= 2
    /\ \A i \in Segs : pc[i] = "persisted"

FailureIsFatal ==
    (\E i \in Segs : pc[i] = "failed") =>
        /\ ~Assembling
        /\ disk[TempName] = NoFile
        /\ output_file = NoFile
        /\ main_pc = "returned" =>
              /\ result.kind = "segment"
              /\ result.pos \in Segs
              /\ pc[result.pos] = "failed"
              /\ result.cause = cause[result.pos]
              /\ result.cause # "none"

\* the run returned a segment's failure although another segment was
\* persisted
FailedDespitePartialSuccess ==
    /\ main_pc = "returned"
    /\ result.kind = "segment"
    /\ \E j \in Segs : pc[j] = "persisted"

(* ---------------------------------- C5 --------------------------------- *)
\* C5: when download() has returned, every spawned task is Persisted or
\* Failed (none is queued, downloading or backing off), also when the
\* result is the failure of a segment.
ReturnAfterAllTerminal ==
    main_pc = "returned" => \A i \in Segs : pc[i] \in Terminal \cup { "unspawned" }

\* the first task to complete failed, and the run still waited for a
\* sibling that was persisted afterwards
WaitedForSibling ==
    /\ main_pc = "returned"
    /\ first_done \in Segs
    /\ pc[first_done] = "failed"
    /\ result.pos = first_done
    /\ \E j \in Segs : j # first_done /\ pc[j] = "persisted" /\ via[j] # "skip"

(* ---------------------------------- C6 --------------------------------- *)
\* C6: with retry limit R, a Failed segment made R + 1 attempts, all
\* failing, and logged exactly R retry events; a Persisted segment whose
\* attempt k was the first to succeed logged exactly k - 1 retry events;
\* and a segment that is Failed or Persisted makes no further attempt and
\* logs no further retry.
RetryCounts ==
    \A i \in Segs :
        /\ pc[i] = "failed" => retries[i] = Retry /\ attempts[i] = Retry + 1
        /\ pc[i] = "persisted" =>
              /\ attempts[i] \in 1..(Retry + 1)
              /\ retries[i] = attempts[i] - 1

NoAttemptAfterEnd ==
    \A i \in Segs :
        pc[i] \in Terminal =>
            /\ pc'[i] = pc[i]
            /\ attempts'[i] = attempts[i]
            /\ retries'[i] = retries[i]

RetryBudget == [] RetryCounts /\ [][NoAttemptAfterEnd]_vars

\* one segment failed for good, another succeeded after a retry
RetriedBothWays ==
    \E i, j \in Segs :
        /\ pc[i] = "failed"
        /\ pc[j] = "persisted"
        /\ attempts[j] >= 2

(* ---------------------------------- C7 --------------------------------- *)
\* C7: the step a task takes on an existing file that the validator
\* accepts makes the segment Persisted without a request, adds nothing to
\* downloaded_bytes and leaves the file as it was.
SkipIsFree ==
    [][\A i \in Segs :
          SkipStep(i) =>
              /\ pc'[i] = "persisted"
              /\ stats'.downloaded_bytes = stats.downloaded_bytes
              /\ disk' = disk]_vars

\* a segment was persisted by its first attempt, from the file an earlier
\* run left, with no byte downloaded in the whole run
SkippedWithoutBytes ==
    \E i \in Segs :
        /\ via[i] = "skip"
        /\ attempts[i] = 1
        /\ stats.downloaded_bytes = 0
        /\ disk[NameOf(i)] = PlainOf(manifest[i + 1])

(* ---------------------------------- C8 --------------------------------- *)
\* C8 as stated: the step that skips a segment leaves completed_segments
\* (and total_segments) as they were.
SkipLeavesCompleted ==
    [][\A i \in Segs :
          SkipStep(i) =>
              /\ stats'.completed_segments = stats.completed_segments
              /\ stats'.total_segments = stats.total_segments]_vars

\* C8, amended: the step that skips a segment adds exactly one to
\* completed_segments and leaves total_segments as it was.
SkipCountsOnce ==
    [][\A i \in Segs :
          SkipStep(i) =>
              /\ stats'.completed_segments = stats.completed_segments + 1
              /\ stats'.total_segments = stats.total_segments]_vars

\* a skipped segment is in the completed count
SkippedAndCounted ==
    \E i \in Segs :
        /\ via[i] = "skip"
        /\ stats.completed_segments >= 1
        /\ stats.total_segments = NumSegs

(* ---------------------------------- C9 --------------------------------- *)
\* C9: in no reachable state does the validator accept a file, at a
\* segment's final name, that holds only a proper prefix of that segment's
\* payload.
NoPartialFileValid ==
    \A i \in Segs :
        LET f == disk[NameOf(i)]
            d == DataOf(i)
        IN ~ /\ IsValidTsFile(f)
             /\ d.ok
             /\ Len(f) < Len(d.data)
             /\ f = Prefix(d.data, Len(f))

(* --------------------------------- C10 --------------------------------- *)
\* C10: in every reachable state completed_segments <= total_segments, and
\* no step makes downloaded_bytes smaller.
CompletedWithinTotal == stats.completed_segments <= stats.total_segments

BytesNeverDecrease == stats'.downloaded_bytes >= stats.downloaded_bytes

StatsInvariant == [] CompletedWithinTotal /\ [][BytesNeverDecrease]_vars

\* every segment of a manifest of several is counted, and bytes were
\* downloaded
AllCounted ==
    /\ stats.total_segments >= 2
    /\ stats.completed_segments = stats.total_segments
    /\ stats.downloaded_bytes > 0

(* --------------------------------- C11 --------------------------------- *)
\* C11: in every reachable state, under every interleaving of the tasks,
\* completed_segments is the number of Persisted segments: one increment
\* for each segment that became Persisted, none for a Failed one, none lost
\* and none doubled.
CompletedIsPersisted ==
    stats.completed_segments = Cardinality({ i \in Segs : pc[i] = "persisted" })

\* all tasks are terminal, some Persisted and some Failed
MixedOutcomeCounted ==
    /\ main_pc = "returned"
    /\ \E i, j \in Segs : pc[i] = "persisted" /\ pc[j] = "failed"
    /\ stats.completed_segments >= 1

(* --------------------------------- C12 --------------------------------- *)
\* task i finds an existing file that the validator rejects
HealStep(i) ==
    /\ pc[i] = "check"
    /\ disk[NameOf(i)] # NoFile
    /\ ~IsValidTsFile(disk[NameOf(i)])
    /\ pc'[i] # pc[i]

\* task i ends an attempt with a successful fetch
FetchedStep(i) ==
    /\ pc[i] = "request"
    /\ pc'[i] = "persisted"

\* C12: a task that finds an existing file failing validation removes it
\* (a failed removal leaves it in place) and goes on to the request, and
\* the step in which a fetch succeeds leaves at the segment's name exactly
\* the fetched, and if keyed decrypted, payload: nothing of an old file.
SelfHealing ==
    [][\A i \in Segs :
          /\ HealStep(i) =>
                /\ pc'[i] = "request"
                /\ disk'[NameOf(i)] \in { NoFile, disk[NameOf(i)] }
          /\ FetchedStep(i) =>
                /\ DataOf(i).ok
                /\ disk'[NameOf(i)] = DataOf(i).data]_vars

\* a payload was fetched over an invalid file that could not be removed
HealedOverOldFile ==
    \E i \in Segs :
        /\ pc[i] = "persisted"
        /\ via[i] = "overwrite"
        /\ disk[NameOf(i)] = PlainOf(manifest[i + 1])

(* --------------------------------- C13 --------------------------------- *)
\* the state of entry i in the terms of the state machine: Pending until
\* its first attempt starts, Downloading from the first request or retry on
SegState(i) ==
    IF pc[i] = "persisted" THEN "Persisted"
    ELSE IF pc[i] = "failed" THEN "Failed"
    ELSE IF pc[i] \in { "unspawned", "queued" } \/ (pc[i] = "check" /\ attempts[i] = 0)
    THEN "Pending"
    ELSE "Downloading"

SegTransitions ==
    { << "Pending", "Pending" >>, << "Pending", "Downloading" >>,
      << "Downloading", "Downloading" >>, << "Downloading", "Persisted" >>,
      << "Downloading", "Failed" >>, << "Pending", "Persisted" >>,
      << "Persisted", "Persisted" >>, << "Failed", "Failed" >> }

\* C13: every step takes every entry along one of the transitions
\* Pending->Downloading, Downloading->Downloading, Downloading->Persisted,
\* Downloading->Failed, Pending->Persisted (or leaves its state as it is);
\* Pending->Persisted happens only on a valid existing file; and an entry
\* that is Persisted or Failed stays so, with no further attempt or request.
SegmentLifecycle ==
    [][\A i \in Segs :
          /\ << SegState(i), SegState(i)' >> \in SegTransitions
          /\ (SegState(i) = "Pending" /\ SegState(i)' = "Persisted") =>
                 IsValidTsFile(disk[NameOf(i)]) /\ via'[i] = "skip"
          /\ pc[i] \in Terminal =>
                 /\ pc'[i] = pc[i]
                 /\ attempts'[i] = attempts[i]
                 /\ stats'.downloaded_bytes = stats.downloaded_bytes
                       \/ \E j \in Segs : j # i /\ pc[j] = "request"]_vars

\* one entry went Pending->Persisted on its existing file, another went
\* through retries to Failed
SkippedAndFailed ==
    \E i, j \in Segs :
        /\ pc[i] = "persisted" /\ via[i] = "skip" /\ attempts[i] = 1
        /\ pc[j] = "failed" /\ retries[j] = Retry

(* --------------------------------- C14 --------------------------------- *)
\* the run ended with every entry Persisted and counted, and assembly done
CompletedRun ==
    /\ main_pc = "returned"
    /\ result.ok
    /\ output_file # NoFile
    /\ \A i \in Segs : pc[i] = "persisted"
    /\ stats.completed_segments = NumSegs

\* C14: in a run in which nothing fails (and whose key, if any, decrypts
\* the segments), for every concurrency limit >= 1 and every number of
\* entries, eventually every entry is Persisted, assembly has completed,
\* and completed_segments equals the number of entries.
FaultFreeRunCompletes ==
    (playlist_key # Some(ShortKey)) => <> CompletedRun

\* a run of more entries than permits completed
CompletedBeyondLimit ==
    /\ CompletedRun
    /\ concurrent = 1
    /\ NumSegs >= 2
    /\ \A i \in Segs : retry_count[i] = 0

(* --------------------------------- C15 --------------------------------- *)
\* the merge loop stands at an entry whose file does not exist
AtMissingFile ==
    /\ main_pc = "merge_loop"
    /\ merge_idx < NumSegs
    /\ disk[MergeNameOf(merge_idx)] = NoFile

\* C15: when the merge loop reaches an entry whose file does not exist, its
\* next step returns the missing-segment error for that entry; and a run
\* that returned this error never ran the transcoder and has no output file.
MissingSegmentIsFatal ==
    /\ [][(AtMissingFile /\ vars' # vars) =>
             /\ main_pc' = "returned"
             /\ result' = Failure("missing", merge_idx, "not_found")]_vars
    /\ [](AtMissingFile => ffmpeg_status = "none")
    /\ [](result.kind = "missing" =>
             /\ main_pc = "returned"
             /\ ffmpeg_status = "none"
             /\ output_file = NoFile)

\* assembly failed at the second entry, whose file was gone, after the
\* first had been appended
MissingSecondEntry ==
    /\ main_pc = "returned"
    /\ result.kind = "missing"
    /\ result.pos = 1
    /\ disk[TempName] = disk[NameOf(0)]

(* --------------------------------- C16 --------------------------------- *)
\* C16 as stated: after a run that returned success no file of the
\* download directory remains, neither the intermediate stream nor a
\* segment file.
NothingLeftAfterSuccess ==
    result.ok => \A f \in DirNames : disk[f] = NoFile

\* C16, amended: after a run that returned success the intermediate stream
\* does not remain, and no segment file remains when remove_dir_all
\* succeeded; when it failed, which is only logged, segment files can
\* remain.
CleanupAfterSuccess ==
    result.ok =>
        /\ disk[TempName] = NoFile
        /\ dir_removed => \A f \in DirNames : disk[f] = NoFile

\* a run of several segments returned success with the directory removed
CleanedUp ==
    /\ result.ok
    /\ dir_removed
    /\ NumSegs >= 2
    /\ output_file # NoFile
    /\ \A f \in DirNames : disk[f] = NoFile

(* --------------------------------- C17 --------------------------------- *)
\* C17: a run whose transcoder exited successfully returns success, also
\* when a cleanup step after it fails.
SuccessSurvivesCleanup ==
    (ffmpeg_status = "zero" /\ main_pc = "returned") => result.ok

(* --------------------------------- C18 --------------------------------- *)
\* C18: in every reachable state, a transcoder that exited non-zero means
\* the run has returned the transcoder's error with its diagnostic output
\* (the error is a value download() returns, nothing else is undone or
\* aborted: no cleanup ran), and no other exit of the transcoder produces
\* that error.
TranscoderFailureReturned ==
    /\ ffmpeg_status = "nonzero" =>
          /\ main_pc = "returned"
          /\ result = Failure("ffmpeg", -1, "stderr")
          /\ ~dir_removed
          /\ disk[TempName] # NoFile
    /\ result.kind = "ffmpeg" => ffmpeg_status = "nonzero"

\* the transcoder failed on a stream of several segments
TranscoderFailed ==
    /\ ffmpeg_status = "nonzero"
    /\ result.kind = "ffmpeg"
    /\ NumSegs >= 2
    /\ \A i \in Segs : pc[i] = "persisted"

(* --------------------------------- C19 --------------------------------- *)
\* the elements of a sequence
Range(q) == { q[k] : k \in 1..Len(q) }

\* the names in failed_tasks
FailedNames == { f[1] : f \in Range(failed_tasks) }

\* every task before the loop index is in exactly one of the three lists
\* (it was skipped, or it was run and succeeded or failed), no later one is
\* in any, and the lists have no repetition
HandledSoFar ==
    /\ task_idx <= Len(tasks)
    /\ Len(successful_tasks) + Len(failed_tasks) + Len(skipped_tasks) = task_idx
    /\ Range(successful_tasks) \cup FailedNames \cup Range(skipped_tasks) = 1..task_idx
    /\ batch_pc = "running" => task_idx < Len(tasks)

\* C19: a batch is handled task by task in list order, each task skipped or
\* run to its own success or failure whatever happened to those before it,
\* and the batch ends only after the last task: a failed task never ends it.
BatchRunsEveryTask ==
    /\ [] HandledSoFar
    /\ [][task_idx' \in { task_idx, task_idx + 1 }]_vars
    /\ []((batch_pc = "done" /\ batch_result # "err_mkdir") => task_idx = Len(tasks))

\* the first task failed with the transcoder's error and the next one was
\* run and succeeded
RanOnAfterFailure ==
    /\ batch_pc = "done"
    /\ Len(tasks) >= 2
    /\ << 1, "ffmpeg" >> \in Range(failed_tasks)
    /\ 2 \in Range(successful_tasks)

(* --------------------------------- C20 --------------------------------- *)
\* C20: when the batch has returned, an error means every task failed; and
\* a batch in which a task succeeded or was skipped, or in which no task
\* failed, has returned success.
BatchFailsOnlyIfAllFailed ==
    batch_pc = "done" =>
        /\ batch_result # "ok" => FailedNames = 1..Len(tasks)
        /\ (successful_tasks # << >> \/ skipped_tasks # << >>) => batch_result = "ok"
        /\ failed_tasks = << >> => batch_result = "ok"

(* --------------------------------- C21 --------------------------------- *)
\* the tasks the loop has dealt with whose artifact was there and not empty
\* when the batch started
HadArtifact == { k \in 1..task_idx : ArtifactSize(tasks[k]) > 0 }

\* C21: of the tasks the loop has dealt with, those skipped (pushed on
\* skipped_tasks without process_download_task being called) are exactly
\* those whose {name}.mp4 was there and not empty in the directory a run of
\* the task writes it to.
SkippedIffArtifact ==
    batch_pc \in { "loop", "done" } => Range(skipped_tasks) = HadArtifact

(* --------------------------------- C22 --------------------------------- *)
\* C22: is_valid_ts_file returns false for an empty file, for every file
\* shorter than two packets and for every file whose first byte is not the
\* sync byte, and true for a file of two packets or more with the sync byte
\* at offsets 0 and PacketLen.
ValidatorRejectsShortFiles ==
    (call.fn = "is_valid_ts_file" /\ ret # NoRet /\ call.file # NoFile) =>
        LET f == call.file IN
        /\ Len(f) = 0 => ret[1] = FALSE
        /\ Len(f) < 2 * PacketLen => ret[1] = FALSE
        /\ (Len(f) >= 1 /\ f[1] # SyncByte) => ret[1] = FALSE
        /\ (Len(f) >= 2 * PacketLen /\ f[1] = SyncByte /\ f[PacketLen + 1] = SyncByte)
              => ret[1] = TRUE

(* --------------------------------- C23 --------------------------------- *)
\* C23: decrypt_segment called with a key that is not KeyLen bytes long
\* returns the invalid-key-length error, whatever the data and the
\* position, and no plaintext.
WrongKeyLengthFails ==
    (call.fn = "decrypt_segment" /\ ret # NoRet /\ Len(call.key) # KeyLen) =>
        /\ ~ret[1].ok
        /\ ret[1].err = "keylen"
        /\ ret[1].data = << >>

\* the call was made with a key one byte short, on data that is a segment
\* encrypted under that very key for that position
ShortKeyRefused ==
    /\ call.fn = "decrypt_segment"
    /\ ret # NoRet
    /\ call.key = ShortKey
    /\ call.index = 1
    /\ call.data = EncryptSegment(PlainOf(UriB), ShortKey, 1)
    /\ ret[1].err = "keylen"

(* --------------------------------- C24 --------------------------------- *)
\* the step takes segment i to the terminal state s
Reaches(i, s) == pc[i] \notin Terminal /\ pc'[i] = s

\* the bar shows the statistics as they are after the step
BarIsCurrent ==
    /\ progress_bar'.position = stats'.completed_segments
    /\ progress_bar'.shown_bytes = stats'.downloaded_bytes

\* C24 as stated: after every step that takes a segment to Persisted or to
\* Failed, the progress display has been brought up to date.
ProgressAfterEveryTerminal ==
    [][\A i \in Segs : (Reaches(i, "persisted") \/ Reaches(i, "failed")) => BarIsCurrent]_vars

\* C24: after every step that takes a segment to Persisted the progress
\* display is up to date, while the run is still going on; a step that
\* takes a segment to Failed leaves the display as it was; and the
\* position shown is the completed count at all times.
ProgressAfterPersisted ==
    /\ [][\A i \in Segs :
            /\ Reaches(i, "persisted") => BarIsCurrent
            /\ Reaches(i, "failed") => progress_bar' = progress_bar]_vars
    /\ [](progress_bar.position = stats.completed_segments)

\* one segment is Persisted and shown while another is still being fetched
ProgressShownMidRun ==
    /\ \E i, j \in Segs : pc[i] = "persisted" /\ pc[j] = "request"
    /\ progress_bar.position = 1
    /\ progress_bar.shown_bytes > 0
    /\ main_pc = "join"

(* --------------------------------- C25 --------------------------------- *)
\* what decrypt_segment makes of the body received for entry i, with the
\* supplied key and the entry's own manifest position
OwnDecryption(i) == DecryptSegment(ServerBody(i), Unwrap(key_data), i)

\* C25: the step in which a fetch of entry i succeeds leaves in the entry's
\* file the received body decrypted with the key and the position i when a
\* key was supplied, and the received body itself when none was; and an
\* attempt whose decryption fails ends without success and without any
\* change to the download directory.
WrittenBytesAreOwnPayload ==
    [][\A i \in Segs :
          /\ FetchedStep(i) =>
                disk'[NameOf(i)] =
                    IF IsSome(key_data) THEN OwnDecryption(i).data ELSE ServerBody(i)
          /\ (pc[i] = "request" /\ pc'[i] # "request" /\ IsSome(key_data)
                /\ ~OwnDecryption(i).ok) =>
                /\ pc'[i] # "persisted"
                /\ disk' = disk]_vars

\* the second entry of an encrypted stream was fetched and its file holds
\* the plain segment, which is not what the server sent
DecryptedSecondEntry ==
    /\ NumSegs = 2
    /\ key_data = Some(Key16)
    /\ pc[1] = "persisted"
    /\ via[1] = "fetch"
    /\ disk[NameOf(1)] = PlainOf(manifest[2])
    /\ disk[NameOf(1)] # ServerBody(1)

(* --------------------------------- C26 --------------------------------- *)
\* a fetch task has been created
Spawned == \E i \in Segs : pc[i] # "unspawned"

\* C26: download() is at the key retrieval only once, coming from the
\* manifest, and the key changes only there, before any fetch task exists;
\* once tasks exist the key they were all given is the playlist's key and
\* stays so; and a download that failed on the key retrieval has created no
\* task, made no attempt and received no segment byte.
KeyFetchedOnceBeforeTasks ==
    /\ [][/\ main_pc' = "extract_key" => main_pc = "fetch_manifest"
          /\ key_data' # key_data => (main_pc = "extract_key" /\ ~Spawned)]_vars
    /\ [](Spawned => key_data = playlist_key)
    /\ [](result.kind = "key" =>
            /\ ~Spawned
            /\ \A i \in Segs : attempts[i] = 0
            /\ stats.downloaded_bytes = 0
            /\ disk = EmptyDisk)

\* both tasks of an encrypted stream were given the key, and used it
BothTasksKeyed ==
    /\ NumSegs = 2
    /\ key_data = Some(Key16)
    /\ \A i \in Segs : pc[i] = "persisted" /\ via[i] = "fetch"
    /\ NameOf(0) # NameOf(1)
    /\ \A i \in Segs : disk[NameOf(i)] = PlainOf(manifest[i + 1])

(* --------------------------------- C27 --------------------------------- *)
\* C27: the file name the merge derives for an entry is the one the fetch
\* derived for it; so while the merge runs after a join in which every
\* entry was Persisted, and nothing outside the program has removed a file,
\* every entry's file is there under the name the merge looks for; and the
\* missing-segment error is returned only after such a removal.
MergeFindsEveryFile ==
    /\ \A i \in Segs : MergeNameOf(i) = NameOf(i)
    /\ (/\ main_pc \in { "merge_create", "merge_loop" }
        /\ \A i \in Segs : pc[i] = "persisted"
        /\ ~env_removed)
          => \A i \in Segs : disk[MergeNameOf(i)] # NoFile
    /\ result.kind = "missing" => env_removed

\* the merge loop has found the files of two entries, one named after its
\* URI and one after its position
MergedBothKindsOfName ==
    /\ manifest = << UriB, UriC >>
    /\ main_pc = "ffmpeg"
    /\ ~env_removed
    /\ disk[TempName] = PlainOf(UriB) \o PlainOf(UriC)

(* --------------------------------- C28 --------------------------------- *)
\* the payloads of the first k entries, each entry's own, in manifest order
RECURSIVE OwnStream(_)
OwnStream(k) ==
    IF k = 0 THEN << >> ELSE OwnStream(k - 1) \o PlainOf(manifest[k])

\* C28: entries at distinct manifest positions have distinct local files;
\* no entry is Persisted by a skip on a file that holds another entry's
\* payload; and a stream assembled to its full length is every entry's own
\* payload in manifest order.
OwnFilePerEntry ==
    /\ \A i, j \in Segs : i # j => NameOf(i) # NameOf(j)
    /\ \A i, j \in Segs :
          (i # j /\ pc[j] = "persisted" /\ via[j] = "skip")
              => disk[NameOf(j)] # PlainOf(manifest[i + 1])
    /\ (main_pc = "ffmpeg" /\ Len(disk[TempName]) = Len(OwnStream(NumSegs)))
          => disk[TempName] = OwnStream(NumSegs)

(* --------------------------------- C29 --------------------------------- *)
\* The downloads of an unencrypted stream into an empty download directory,
\* with a runtime that never stops scheduling what can run: the key and
\* the files of an earlier run have no part in the admission of tasks.
GateInit ==
    /\ Init
    /\ playlist_key = None
    /\ disk = EmptyDisk

GateSpec == GateInit /\ [][Next]_vars /\ WF_vars(Next)

\* slots held and slots free add up to the limit
SlotsAddUp ==
    Spawned =>
        /\ permits >= 0
        /\ permits + Cardinality(Admitted) = concurrent

\* C29: from the spawn on, every task between its admission and its
\* terminal state (in an attempt or in a backoff wait) holds one slot and no
\* other task holds any, so free and held slots add up to the limit; the
\* step that takes a task to Persisted or Failed frees one slot and a step
\* into a backoff wait frees none; once the tasks are spawned there comes a
\* state in which none is queued any more (a task never returns to the
\* queue); and once every task is terminal all slots are free.
SlotsConserved ==
    /\ [] SlotsAddUp
    /\ [][\A i \in Segs :
            /\ (Reaches(i, "persisted") \/ Reaches(i, "failed")) => permits' = permits + 1
            /\ (pc[i] # "backoff" /\ pc'[i] = "backoff") => permits' = permits]_vars
    /\ Spawned ~> (\A i \in Segs : pc[i] # "queued")
    /\ []((Spawned /\ \A i \in Segs : pc[i] \in Terminal) => permits = concurrent)

\* the only slot is held by a task in its backoff wait while another task
\* is queued, and the run goes on
SlotHeldDuringBackoff ==
    /\ concurrent = 1
    /\ permits = 0
    /\ \E i, j \in Segs : pc[i] = "backoff" /\ pc[j] = "queued"

(* --------------------------------- C30 --------------------------------- *)
\* download() has returned one of the failures of a segment, of a missing
\* file at the merge, or of the transcoder
FailedRun ==
    /\ main_pc = "returned"
    /\ result.kind \in { "segment", "missing", "ffmpeg" }

\* C30: when a download has failed, the file of every entry that was
\* Persisted is still there and still passes the validator, so that a later
\* run skips the entry (but for a file that something outside the program
\* removed).
FailureKeepsPersistedFiles ==
    FailedRun =>
        \A i \in Segs :
            pc[i] = "persisted" =>
                \/ SkipOk(disk[NameOf(i)])
                \/ env_removed /\ disk[NameOf(i)] = NoFile

(* --------------------------------- C31 --------------------------------- *)
\* the sizes of the bodies of the first k entries that are Persisted by a
\* fetch, added up
RECURSIVE FetchedBytes(_)
FetchedBytes(k) ==
    IF k = 0 THEN 0
    ELSE FetchedBytes(k - 1) +
         (IF pc[k - 1] = "persisted" /\ via[k - 1] \in { "fetch", "overwrite" }
          THEN Len(ServerBody(k - 1))
          ELSE 0)

\* C31 as stated: once every task is terminal, downloaded_bytes is the sum
\* of the sizes of the segments fetched and Persisted in this run, each
\* counted once.
BytesArePersistedPayloads ==
    (Spawned /\ AllJoined) => stats.downloaded_bytes = FetchedBytes(NumSegs)

\* task i ends an attempt in which a request was sent without success
FailedAttempt(i) ==
    /\ pc[i] = "request"
    /\ pc'[i] \in { "backoff", "failed" }

\* C31: downloaded_bytes grows by the size of the received body in every
\* attempt that received one, whether the attempt then succeeds or fails on
\* the decryption or the write, and in no other step: a successful fetch
\* adds the body's size, a skip adds nothing, a failed attempt adds nothing
\* or the body's size, and the latter whenever it has written to the
\* download directory.
BytesCountEveryReceivedBody ==
    /\ [][\A i \in Segs :
            /\ FetchedStep(i) =>
                  stats'.downloaded_bytes = stats.downloaded_bytes + Len(ServerBody(i))
            /\ SkipStep(i) => stats'.downloaded_bytes = stats.downloaded_bytes
            /\ FailedAttempt(i) =>
                  /\ stats'.downloaded_bytes \in
                        { stats.downloaded_bytes,
                          stats.downloaded_bytes + Len(ServerBody(i)) }
                  /\ disk' # disk =>
                        stats'.downloaded_bytes =
                            stats.downloaded_bytes + Len(ServerBody(i))]_vars
    /\ [][stats'.downloaded_bytes # stats.downloaded_bytes =>
            \E i \in Segs : pc[i] = "request" /\ pc'[i] # "request"]_vars

\* the only segment was Persisted by the retry of an attempt whose write
\* failed, and its body was counted twice
BodyCountedTwice ==
    /\ NumSegs = 1
    /\ pc[0] = "persisted"
    /\ via[0] \in { "fetch", "overwrite" }
    /\ retries[0] = 1
    /\ stats.downloaded_bytes = 2 * Len(ServerBody(0))

(* --------------------------------- C32 --------------------------------- *)
\* C32: the segment failure download() returns names the lowest manifest
\* position among the failed tasks, with that task's error, whatever the
\* order in which the tasks completed.
LowestFailureReported ==
    result.kind = "segment" =>
        /\ result.pos \in Failed
        /\ \A j \in Failed : result.pos <= j
        /\ result.cause = cause[result.pos]

\* both tasks failed, the second one first, and the first one is reported
LaterTaskFailedFirst ==
    /\ main_pc = "returned"
    /\ result.kind = "segment"
    /\ Failed = { 0, 1 }
    /\ first_done = 1
    /\ result.pos = 0

(* --------------------------------- C33 --------------------------------- *)
\* the segments within b places of segment c, in playlist order
WindowAround(d, c, b) ==
    LET lo == IF c - b < 0 THEN 0 ELSE c - b
        hi == IF c + b > Len(d) - 1 THEN Len(d) - 1 ELSE c + b
    IN [k \in 1..(hi - lo + 1) |-> lo + k - 1]

\* C33: get_segments_around_time(t, b) returns the window of up to b
\* segments on either side of the segment get_segment_by_time_offset(t)
\* returns, clipped to the playlist, and returns no window when
\* get_segment_by_time_offset(t) returns None.
AroundTimeFollowsByTime ==
    (call.fn = "get_segments_around_time" /\ ret # NoRet) =>
        LET hit == GetSegmentByTimeOffset(call.playlist, call.time_offset) IN
        IF IsSome(hit)
        THEN ret[1] = Some(WindowAround(call.playlist, Unwrap(hit), call.buffer_size))
        ELSE ret[1] = None

====
